---- MODULE Spec2Model ----
(***************************************************************************)
(* A model of makirwe/git-operations-demo.                                 *)
(*                                                                         *)
(*   src/git.py                              safe_git_operations, __main__ *)
(*   src/remote_demo/branch_operations.py    GitBranchManager and its demo *)
(*   src/remote_demo/conflict_resolution.py  GitConflictResolver, its demo *)
(*                                                                         *)
(* The scripts drive the external git executable through subprocess.run.   *)
(* git itself is modelled by the Git* operators below: a commit graph,     *)
(* branch refs, HEAD, a working tree and the state of a merge in progress. *)
(* Their behaviour was taken from git 2.39 run on the command lines the    *)
(* scripts issue.                                                          *)
(*                                                                         *)
(* SpecSafe is src/git.py; Spec is the two classes of src/remote_demo.     *)
(***************************************************************************)
EXTENDS Integers, Sequences, FiniteSets, TLC

VARIABLES
    \* ---- src/git.py ----
    spc,        \* position of safe_git_operations / __main__
    dirExists,  \* project_path.exists()
    calls,      \* the subprocess.run calls made so far: <<[cmd, outcome, result]>>
    result,     \* what safe_git_operations did: "running", "True", "False", "propagated"
    exitCode,   \* the status given to sys.exit, -1 while the script runs
    printed,    \* what safe_git_operations has printed, one tag per print call
    \* ---- src/remote_demo ----
    cls,        \* the class in use: "manager" (GitBranchManager) or "resolver"
    env,        \* what git finds around it: [defaultBranch, identity]
    repo,       \* the repository and its working tree
    pc,         \* "api": methods called freely; otherwise the demo's position
    last        \* the last method call: [op, arg, ret, said]

vars == <<spc, dirExists, calls, result, exitCode, printed, cls, env, repo, pc, last>>

safeVars == <<spc, dirExists, calls, result, exitCode, printed>>
repoVars == <<cls, env, repo, pc, last>>

(***************************************************************************)
(*                              src/git.py                                 *)
(***************************************************************************)

\* What subprocess.run(command, check=True) can do, as far as run_git_command
\* tells the cases apart: the command exits 0, it exits non-zero
\* (CalledProcessError), or the executable is not found (FileNotFoundError).
Outcomes == {"exit0", "nonzero", "notfound"}

\* The git commands of safe_git_operations, in the order of the source text.
CommandOrder == <<"init", "status", "add", "config user.email",
                  "config user.name", "commit", "log">>

ConfigCommands == {"config user.email", "config user.name"}

\* The five commands whose failure ends the run.
RequiredCommands == {"init", "status", "add", "commit", "log"}

\* run_git_command with check=True dropped: a non-zero exit is handed back.
run_git_command_Unchecked(outcome) ==
    IF outcome \in {"exit0", "nonzero"} THEN "return" ELSE "GitOperationError"

\* run_git_command: "return" (the CompletedProcess is returned) or the
\* exception raised.
run_git_command(outcome) ==
    CASE outcome = "exit0"    -> "return"
      [] outcome = "nonzero"  -> "GitOperationError"
      [] outcome = "notfound" -> "GitOperationError"

\* Exceptions the file system calls (mkdir, write_text) can raise.
FsOutcomes == {"ok", "OSError"}

\* The except clauses of safe_git_operations with "except Exception" missing.
SafeHandler_OnlyGitError(exc) ==
    IF exc = "GitOperationError" THEN "False" ELSE "propagated"

\* The except clauses of safe_git_operations: both return False.
SafeHandler(exc) ==
    CASE exc = "GitOperationError" -> "False"
      [] OTHER                     -> "False"

\* The inner handler around the two git config calls with the wrong class.
ConfigHandler_Rethrow(exc) == FALSE

\* The inner try/except around the two git config calls: TRUE when the
\* exception is swallowed (a warning is printed and the run goes on).
ConfigHandler(exc) == exc = "GitOperationError"

\* An exception raised inside the outer try block, after the run has printed
\* out: the handler prints "Error: ..." or "Unexpected error: ..." and returns.
RaiseAfter(out, exc) ==
    /\ result' = SafeHandler(exc)
    /\ printed' = IF SafeHandler(exc) = "propagated" THEN out
                  ELSE Append(out, IF exc = "GitOperationError"
                                     THEN "Error" ELSE "Unexpected error")
    /\ spc' = IF SafeHandler(exc) = "propagated" THEN "crashed" ELSE "returned"

\* if not project_path.exists(): project_path.mkdir(parents=True, exist_ok=True)
SafeMkdir ==
    /\ spc = "start"
    /\ IF dirExists
         THEN /\ spc' = "init"
              /\ UNCHANGED <<dirExists, result, printed>>
         ELSE \E o \in FsOutcomes :
                IF o = "ok"
                  THEN /\ dirExists' = TRUE
                       /\ spc' = "init"
                       /\ printed' = Append(printed, "Creating directory")
                       /\ UNCHANGED result
                  ELSE /\ RaiseAfter(Append(printed, "Creating directory"), o)
                       /\ UNCHANGED dirExists
    /\ UNCHANGED <<calls, exitCode>>

\* Where the run goes after command cmd returned.
AfterCommand(cmd) ==
    CASE cmd = "init"              -> "write"
      [] cmd = "status"            -> "add"
      [] cmd = "add"               -> "config user.email"
      [] cmd = "config user.email" -> "config user.name"
      [] cmd = "config user.name"  -> "commit"
      [] cmd = "commit"            -> "log"
      [] cmd = "log"               -> "else"

\* The progress line printed before command cmd, if any.
Announce(cmd) ==
    CASE cmd = "init"   -> <<"Initializing Git repository...">>
      [] cmd = "status" -> <<"Checking repository status...">>
      [] cmd = "add"    -> <<"Adding files to staging...">>
      [] cmd = "commit" -> <<"Committing changes...">>
      [] cmd = "log"    -> <<"Showing commit log...">>
      [] OTHER          -> <<>>

\* One run_git_command call of safe_git_operations, at position cmd.
SafeGit(cmd) ==
    /\ spc = cmd
    /\ \E o \in Outcomes :
         LET r   == run_git_command(o)
             out == printed \o Announce(cmd)
         IN
         /\ calls' = Append(calls, [cmd |-> cmd, outcome |-> o, result |-> r])
         /\ IF r = "return"
              THEN /\ spc' = AfterCommand(cmd)
                   /\ printed' = IF cmd \in {"status", "log"}
                                   THEN Append(out, cmd \o " stdout")
                                   ELSE out
                   /\ UNCHANGED result
              ELSE IF cmd \in ConfigCommands /\ ConfigHandler(r)
                     THEN /\ spc' = "commit"
                          /\ printed' = Append(out, "Warning: Could not configure Git user")
                          /\ UNCHANGED result
                     ELSE RaiseAfter(out, r)
    /\ UNCHANGED <<dirExists, exitCode>>

\* sample_file.write_text("Hello, Git!")
SafeWrite ==
    /\ spc = "write"
    /\ \E o \in FsOutcomes :
         IF o = "ok"
           THEN spc' = "status" /\ UNCHANGED <<result, printed>>
           ELSE RaiseAfter(printed, o)
    /\ UNCHANGED <<dirExists, calls, exitCode>>

\* The else clause of the try statement: return True.
SafeElse ==
    /\ spc = "else"
    /\ result' = "True"
    /\ printed' = Append(printed, "All Git operations completed successfully!")
    /\ spc' = "returned"
    /\ UNCHANGED <<dirExists, calls, exitCode>>

\* __main__: sys.exit(0 if success else 1)
MainExit ==
    /\ spc = "returned"
    /\ exitCode' = IF result = "True" THEN 0 ELSE 1
    /\ spc' = "exited"
    /\ UNCHANGED <<dirExists, calls, result, printed>>

(***************************************************************************)
(*                    git, as the scripts drive it                         *)
(***************************************************************************)

\* The most commits a repository of the model holds.
MaxCommits == 4

\* The files the two demos write.
Paths == {"shared.txt", "main.txt", "feature.txt", "parallel.txt"}

\* The branch names in play: what git init may call the first branch, and
\* the branch the demos create.
Branches == {"main", "master", "feature"}

\* The content of a path that is not there.
NoFile == "(absent)"

EmptyTree == [p \in Paths |-> NoFile]

\* The directory before git init.
NoRepo ==
    [init |-> FALSE, commits |-> <<>>, refs |-> [b \in Branches |-> 0],
     head |-> "", work |-> EmptyTree, mergeHead |-> 0, unmerged |-> {}]

NoCall == [op |-> "", arg |-> <<>>, ret |-> "None", said |-> ""]

\* What a git command did: the repository after it, its exit status and its
\* standard output (what the scripts capture).
GitResult(r, rc, stdout) == [repo |-> r, rc |-> rc, stdout |-> stdout]

\* The commit HEAD's branch points at, 0 on a branch with no commit yet.
HeadTip(r) == IF r.head \in Branches THEN r.refs[r.head] ELSE 0

TreeOf(r, c) == IF c = 0 THEN EmptyTree ELSE r.commits[c].tree

RECURSIVE Ancestors(_, _)
\* The commits reachable from c by parent edges, c included.
Ancestors(r, c) ==
    IF c = 0 THEN {}
    ELSE {c} \cup UNION {Ancestors(r, r.commits[c].parents[i]) :
                           i \in DOMAIN r.commits[c].parents}

\* The best common ancestors of a and b: the common ancestors that are
\* ancestors of no other common ancestor.
MergeBases(r, a, b) ==
    LET common == Ancestors(r, a) \cap Ancestors(r, b) IN
    {c \in common : \A d \in common \ {c} : c \notin Ancestors(r, d)}

MergeBase(r, a, b) ==
    LET best == MergeBases(r, a, b) IN
    IF best = {} THEN 0 ELSE CHOOSE c \in best : \A d \in best : c >= d

\* The paths changed in the working tree since HEAD's commit (modified, or
\* new and untracked).
LocalChanges(r) == {p \in Paths : r.work[p] # TreeOf(r, HeadTip(r))[p]}

\* The working tree after HEAD moved from tree h to tree t: paths with local
\* changes keep them.
Carry(r, h, t) == [p \in Paths |-> IF r.work[p] # h[p] THEN r.work[p] ELSE t[p]]

\* git init in a directory that is no repository yet: HEAD names the
\* initial branch (init.defaultBranch), which has no commit.
GitInit(r, e) ==
    GitResult([r EXCEPT !.init = TRUE, !.head = e.defaultBranch], 0,
              "Initialized empty Git repository")

\* git add . : everything in the working tree is staged, which also marks
\* every conflicted path resolved.
GitAddAll(r) == GitResult([r EXCEPT !.unmerged = {}], 0, "")

\* git add <filename>
GitAddFile(r, f) ==
    IF r.work[f] = NoFile
      THEN GitResult(r, 128, "")
      ELSE GitResult([r EXCEPT !.unmerged = @ \ {f}], 0, "")

\* git commit --allow-empty: what is staged is committed even when nothing
\* changed.
GitCommit_AllowEmpty(r, e, msg) ==
    IF ~e.identity \/ r.unmerged # {}
      THEN GitResult(r, 128, "")
      ELSE LET c == [parents |-> (IF HeadTip(r) = 0 THEN <<>> ELSE <<HeadTip(r)>>)
                                 \o (IF r.mergeHead = 0 THEN <<>> ELSE <<r.mergeHead>>),
                     tree |-> r.work, msg |-> msg]
           IN GitResult([r EXCEPT !.commits = Append(@, c),
                                  !.refs[r.head] = Len(r.commits) + 1,
                                  !.mergeHead = 0],
                        0, "[" \o r.head \o "] " \o msg)

\* git commit -m msg, run right after git add . (the index is the working
\* tree). It fails without a user identity, with unmerged paths, and with
\* nothing to commit; while a merge is in progress there is always something
\* to commit, and the commit gets MERGE_HEAD as its second parent.
GitCommit(r, e, msg) ==
    IF ~e.identity \/ r.unmerged # {}
      THEN GitResult(r, 128, "")
    ELSE IF r.mergeHead = 0 /\ r.work = TreeOf(r, HeadTip(r))
      THEN GitResult(r, 1, "nothing to commit, working tree clean")
    ELSE LET c == [parents |-> (IF HeadTip(r) = 0 THEN <<>> ELSE <<HeadTip(r)>>)
                               \o (IF r.mergeHead = 0 THEN <<>> ELSE <<r.mergeHead>>),
                   tree |-> r.work, msg |-> msg]
         IN GitResult([r EXCEPT !.commits = Append(@, c),
                                !.refs[r.head] = Len(r.commits) + 1,
                                !.mergeHead = 0],
                      0, "[" \o r.head \o "] " \o msg)

\* git checkout -b <b>: fails when the branch exists; otherwise HEAD moves to
\* the new branch, which starts at HEAD's commit (or has none, when HEAD's
\* branch has none). The working tree stays; a merge in progress is dropped.
GitCheckoutNew(r, b) ==
    IF r.refs[b] # 0
      THEN GitResult(r, 128, "")
      ELSE GitResult([r EXCEPT !.refs[b] = HeadTip(r), !.head = b, !.mergeHead = 0],
                     0, "")

\* git checkout <b>: fails when there is no such branch, when the index holds
\* unmerged paths, and when a locally changed path differs between the two
\* branches. Its output lists the tracked paths that keep local changes.
GitCheckout(r, b) ==
    LET h == TreeOf(r, HeadTip(r))
        t == TreeOf(r, r.refs[b])
    IN
    IF b \notin Branches \/ r.refs[b] = 0
      THEN GitResult(r, 1, "")
    ELSE IF r.unmerged # {}
      THEN GitResult(r, 1, "needs merge")
    ELSE IF \E p \in LocalChanges(r) : h[p] # t[p]
      THEN GitResult(r, 1, "")
    ELSE GitResult([r EXCEPT !.head = b, !.work = Carry(r, h, t), !.mergeHead = 0], 0,
                   IF \E p \in LocalChanges(r) : h[p] # NoFile THEN "M" ELSE "")

\* The text git leaves in a conflicted file.
Markers(ours, theirs, b) ==
    "<<<<<<< HEAD|" \o ours \o "|=======|" \o theirs \o "|>>>>>>> " \o b

\* The paths both sides changed, to different content, since the base. Every
\* content the scripts write replaces the whole file, so two different
\* changes of one path always overlap.
Conflicts(base, ours, theirs) ==
    {p \in Paths : ours[p] # theirs[p] /\ ours[p] # base[p] /\ theirs[p] # base[p]}

\* The three-way merge of the trees; a conflicted path holds the markers.
MergedTree(base, ours, theirs, b) ==
    [p \in Paths |->
        IF ours[p] = theirs[p] THEN ours[p]
        ELSE IF ours[p] = base[p] THEN theirs[p]
        ELSE IF theirs[p] = base[p] THEN ours[p]
        ELSE Markers(ours[p], theirs[p], b)]

\* git merge <b> into HEAD's branch.
GitMerge(r, e, b) ==
    LET ours   == HeadTip(r)
        theirs == r.refs[b]
        o      == TreeOf(r, ours)
        t      == TreeOf(r, theirs)
        base   == TreeOf(r, MergeBase(r, ours, theirs))
        m      == MergedTree(base, o, t, b)
        bad    == Conflicts(base, o, t)
        \* the paths the merge writes in the working tree
        touched == bad \cup {p \in Paths : m[p] # o[p]}
        work   == [p \in Paths |-> IF p \in touched THEN m[p] ELSE r.work[p]]
        c      == [parents |-> <<ours, theirs>>, tree |-> m,
                   msg |-> "Merge branch '" \o b \o "'"]
    IN
    \* a merge is already in progress
    IF r.mergeHead # 0 \/ r.unmerged # {}
      THEN GitResult(r, 128, "")
    \* no such branch: "not something we can merge"
    ELSE IF b \notin Branches \/ theirs = 0
      THEN GitResult(r, 1, "")
    ELSE IF theirs \in Ancestors(r, ours)
      THEN GitResult(r, 0, "Already up to date.")
    \* fast-forward: the branch moves to their commit, no commit is made
    ELSE IF ours \in Ancestors(r, theirs)
      THEN IF \E p \in LocalChanges(r) : o[p] # t[p]
             THEN GitResult(r, 1, "Updating")
             ELSE GitResult([r EXCEPT !.refs[r.head] = theirs,
                                      !.work = Carry(r, o, t)],
                            0, "Updating|Fast-forward")
    \* a true merge: refused when it would overwrite local changes
    ELSE IF \E p \in LocalChanges(r) : p \in touched
      THEN GitResult(r, 2, "")
    ELSE IF bad # {}
      THEN GitResult([r EXCEPT !.mergeHead = theirs, !.unmerged = bad,
                               !.work = work],
                     1, "CONFLICT (content): Merge conflict|Automatic merge failed")
    ELSE IF ~e.identity
      THEN GitResult(r, 128, "")
    ELSE GitResult([r EXCEPT !.commits = Append(@, c),
                             !.refs[r.head] = Len(r.commits) + 1,
                             !.work = work],
                   0, "Merge made by the 'ort' strategy.")

(***************************************************************************)
(*             run_command, shared by the classes of remote_demo           *)
(***************************************************************************)

\* Python's None and str, as run_command returns them.
None == [none |-> TRUE, text |-> ""]
Str(text) == [none |-> FALSE, text |-> text]

\* The truth value Python gives a value in "if result:".
Truthy(v) == ~v.none /\ v.text # ""

\* "result is not None", as the Python bool.
IsNotNone(v) == IF v.none THEN "False" ELSE "True"

\* What a method did: the repository after it, its return value ("True",
\* "False" or "None") and the line it printed about its outcome.
Done(r, ret, said) == [repo |-> r, ret |-> ret, said |-> said]

(***************************************************************************)
(*        src/remote_demo/branch_operations.py: GitBranchManager           *)
(***************************************************************************)

\* GitBranchManager.run_command: the stripped output of a command that
\* exited 0, None (after printing the error) of one that did not.
ManagerRunCommand(g) == IF g.rc = 0 THEN Str(g.stdout) ELSE None

\* GitBranchManager.ensure_repo_exists
ManagerEnsureRepoExists(r, e) == IF r.init THEN r ELSE GitInit(r, e).repo

\* GitBranchManager.create_file
ManagerCreateFile(r, f, content) ==
    Done([r EXCEPT !.work[f] = content], "True", "")

\* GitBranchManager.commit_changes
ManagerCommitChanges(r, e, msg) ==
    LET g == GitCommit(GitAddAll(r).repo, e, msg) IN
    Done(g.repo, IsNotNone(ManagerRunCommand(g)), "")

\* GitBranchManager.create_branch
ManagerCreateBranch(r, b) ==
    LET g == GitCheckoutNew(r, b) IN
    Done(g.repo, IsNotNone(ManagerRunCommand(g)), "")

\* GitBranchManager.switch_branch
ManagerSwitchBranch(r, b) ==
    LET g == GitCheckout(r, b) IN
    Done(g.repo, IsNotNone(ManagerRunCommand(g)), "")

\* merge_branch with the test of the result inverted.
ManagerMergeBranch_IsNone(r, e, b) ==
    LET g == GitMerge(r, e, b) IN
    Done(g.repo, IF ManagerRunCommand(g).none THEN "True" ELSE "False", "")

\* GitBranchManager.merge_branch
ManagerMergeBranch(r, e, b) ==
    LET g == GitMerge(r, e, b) IN
    Done(g.repo, IsNotNone(ManagerRunCommand(g)), "")

\* GitBranchManager.show_branch_status: git branch and git status change
\* nothing.
ManagerShowBranchStatus(r) == Done(r, "None", "Current branch status:")

(***************************************************************************)
(*      src/remote_demo/conflict_resolution.py: GitConflictResolver        *)
(***************************************************************************)

\* run_command without check=True: the output of a failed command is
\* returned like any other.
ResolverRunCommand_Unchecked(g) == Str(g.stdout)

\* GitConflictResolver.run_command: the stripped output of a command that
\* exited 0, None (after printing the error) of one that did not.
ResolverRunCommand(g) == IF g.rc = 0 THEN Str(g.stdout) ELSE None

\* GitConflictResolver.setup_repository
ResolverSetupRepository(r, e) == IF r.init THEN r ELSE GitInit(r, e).repo

\* GitConflictResolver.create_file
ResolverCreateFile(r, f, content) ==
    Done([r EXCEPT !.work[f] = content], "None", "Created/Updated")

\* GitConflictResolver.commit_changes
ResolverCommitChanges(r, e, msg) ==
    LET g   == GitCommit(GitAddAll(r).repo, e, msg)
        res == ResolverRunCommand(g)
    IN Done(g.repo, IsNotNone(res),
            IF Truthy(res) THEN "Committed changes" ELSE "")

\* GitConflictResolver.create_branch
ResolverCreateBranch(r, b) ==
    LET g   == GitCheckoutNew(r, b)
        res == ResolverRunCommand(g)
    IN Done(g.repo, IsNotNone(res),
            IF Truthy(res) THEN "Created and switched to branch" ELSE "")

\* GitConflictResolver.switch_branch
ResolverSwitchBranch(r, b) ==
    LET g   == GitCheckout(r, b)
        res == ResolverRunCommand(g)
    IN Done(g.repo, IsNotNone(res),
            IF Truthy(res) THEN "Switched to branch" ELSE "")

\* GitConflictResolver.merge_branch
ResolverMergeBranch(r, e, b) ==
    LET g   == GitMerge(r, e, b)
        res == ResolverRunCommand(g)
    IN IF Truthy(res)
         THEN Done(g.repo, "True", "Successfully merged")
         ELSE Done(g.repo, "False", "Merge conflict detected")

\* resolve_conflict that stages the file and leaves the commit to the caller.
ResolverResolveConflict_NoCommit(r, e, f, resolution) ==
    Done(GitAddFile(ResolverCreateFile(r, f, resolution).repo, f).repo,
         "None", "Resolved conflict")

\* GitConflictResolver.resolve_conflict
ResolverResolveConflict(r, e, f, resolution) ==
    LET written == ResolverCreateFile(r, f, resolution).repo
        added   == GitAddFile(written, f).repo
    IN Done(ResolverCommitChanges(added, e, "Resolve merge conflict").repo,
            "None", "Resolved conflict")

(***************************************************************************)
(*                     The callers of the two classes                      *)
(***************************************************************************)

\* What the callers pass: the files and contents of the two demos.
ManagerFiles ==
    {<<"main.txt", "Main branch content">>,
     <<"feature.txt", "Feature branch content">>,
     <<"parallel.txt", "Parallel main branch work">>}

Resolution == "Resolved content:|Main branch changes|+|Feature branch changes"

ResolverFiles ==
    {<<"shared.txt", "Initial content">>,
     <<"shared.txt", "Feature branch changes">>,
     <<"shared.txt", "Main branch changes">>}

\* What a caller resolves a conflict to: the demo's text, or one side's.
Resolutions ==
    {<<"shared.txt", Resolution>>, <<"shared.txt", "Main branch changes">>}

\* The branch a caller creates, and the branches it names (as the demos do;
\* "main" is no branch of a repository whose first branch is master).
NewBranches == {"feature"}
NamedBranches == {"main", "feature"}

\* One method call: the repository and the record of the call change, the
\* caller moves on to next.
Call(op, arg, d, next) ==
    /\ Len(d.repo.commits) <= MaxCommits
    /\ repo' = d.repo
    /\ last' = [op |-> op, arg |-> arg, ret |-> d.ret, said |-> d.said]
    /\ pc' = next
    /\ UNCHANGED <<cls, env, safeVars>>

\* GitBranchManager.__init__, by a caller that goes on to call the methods.
ManagerConstruct ==
    /\ pc = "new"
    /\ cls = "manager"
    /\ repo' = ManagerEnsureRepoExists(repo, env)
    /\ pc' = "api"
    /\ UNCHANGED <<cls, env, last, safeVars>>

\* GitConflictResolver.__init__, by a caller that goes on to call the methods.
ResolverConstruct ==
    /\ pc = "new"
    /\ cls = "resolver"
    /\ repo' = ResolverSetupRepository(repo, env)
    /\ pc' = "api"
    /\ UNCHANGED <<cls, env, last, safeVars>>

\* A caller of GitBranchManager's methods.
ManagerApi ==
    /\ pc = "api"
    /\ cls = "manager"
    /\ \/ \E fc \in ManagerFiles :
            Call("create_file", fc, ManagerCreateFile(repo, fc[1], fc[2]), "api")
       \/ Call("commit_changes", <<"work">>, ManagerCommitChanges(repo, env, "work"), "api")
       \/ \E b \in NewBranches :
            Call("create_branch", <<b>>, ManagerCreateBranch(repo, b), "api")
       \/ \E b \in NamedBranches :
            Call("switch_branch", <<b>>, ManagerSwitchBranch(repo, b), "api")
       \/ \E b \in NamedBranches :
            Call("merge_branch", <<b>>, ManagerMergeBranch(repo, env, b), "api")

\* A caller of GitConflictResolver's methods.
ResolverApi ==
    /\ pc = "api"
    /\ cls = "resolver"
    /\ \/ \E fc \in ResolverFiles :
            Call("create_file", fc, ResolverCreateFile(repo, fc[1], fc[2]), "api")
       \/ Call("commit_changes", <<"work">>, ResolverCommitChanges(repo, env, "work"), "api")
       \/ \E b \in NewBranches :
            Call("create_branch", <<b>>, ResolverCreateBranch(repo, b), "api")
       \/ \E b \in NamedBranches :
            Call("switch_branch", <<b>>, ResolverSwitchBranch(repo, b), "api")
       \/ \E b \in NamedBranches :
            Call("merge_branch", <<b>>, ResolverMergeBranch(repo, env, b), "api")
       \/ \E fc \in Resolutions :
            Call("resolve_conflict", fc,
                 ResolverResolveConflict(repo, env, fc[1], fc[2]), "api")

\* demonstrate_branching, one statement a step. It constructs its manager on
\* the directory branch_demo, whatever state an earlier use left it in.
DemonstrateBranching ==
    /\ cls = "manager"
    /\ \/ /\ pc \in {"new", "api"}
          /\ repo' = ManagerEnsureRepoExists(repo, env)
          /\ pc' = "b1"
          /\ last' = NoCall
          /\ UNCHANGED <<cls, env, safeVars>>
       \/ /\ pc = "b1"
          /\ Call("create_file", <<"main.txt", "Main branch content">>,
                  ManagerCreateFile(repo, "main.txt", "Main branch content"), "b2")
       \/ /\ pc = "b2"
          /\ Call("commit_changes", <<"Initial commit on main">>,
                  ManagerCommitChanges(repo, env, "Initial commit on main"), "b3")
       \/ /\ pc = "b3"
          /\ Call("create_branch", <<"feature">>, ManagerCreateBranch(repo, "feature"), "b4")
       \/ /\ pc = "b4"
          /\ Call("create_file", <<"feature.txt", "Feature branch content">>,
                  ManagerCreateFile(repo, "feature.txt", "Feature branch content"), "b5")
       \/ /\ pc = "b5"
          /\ Call("commit_changes", <<"Add feature">>,
                  ManagerCommitChanges(repo, env, "Add feature"), "b6")
       \/ /\ pc = "b6"
          /\ Call("switch_branch", <<"main">>, ManagerSwitchBranch(repo, "main"), "b7")
       \/ /\ pc = "b7"
          /\ Call("create_file", <<"parallel.txt", "Parallel main branch work">>,
                  ManagerCreateFile(repo, "parallel.txt", "Parallel main branch work"), "b8")
       \/ /\ pc = "b8"
          /\ Call("commit_changes", <<"Parallel work on main">>,
                  ManagerCommitChanges(repo, env, "Parallel work on main"), "b9")
       \/ /\ pc = "b9"
          /\ Call("merge_branch", <<"feature">>, ManagerMergeBranch(repo, env, "feature"), "b10")
       \/ /\ pc = "b10"
          /\ Call("show_branch_status", <<>>, ManagerShowBranchStatus(repo), "done")

\* demonstrate_conflict_resolution, one statement a step, on the directory
\* conflict_demo.
DemonstrateConflictResolution ==
    /\ cls = "resolver"
    /\ \/ /\ pc \in {"new", "api"}
          /\ repo' = ResolverSetupRepository(repo, env)
          /\ pc' = "c1"
          /\ last' = NoCall
          /\ UNCHANGED <<cls, env, safeVars>>
       \/ /\ pc = "c1"
          /\ Call("create_file", <<"shared.txt", "Initial content">>,
                  ResolverCreateFile(repo, "shared.txt", "Initial content"), "c2")
       \/ /\ pc = "c2"
          /\ Call("commit_changes", <<"Initial commit">>,
                  ResolverCommitChanges(repo, env, "Initial commit"), "c3")
       \/ /\ pc = "c3"
          /\ Call("create_branch", <<"feature">>, ResolverCreateBranch(repo, "feature"), "c4")
       \/ /\ pc = "c4"
          /\ Call("create_file", <<"shared.txt", "Feature branch changes">>,
                  ResolverCreateFile(repo, "shared.txt", "Feature branch changes"), "c5")
       \/ /\ pc = "c5"
          /\ Call("commit_changes", <<"Feature branch modifications">>,
                  ResolverCommitChanges(repo, env, "Feature branch modifications"), "c6")
       \/ /\ pc = "c6"
          /\ Call("switch_branch", <<"main">>, ResolverSwitchBranch(repo, "main"), "c7")
       \/ /\ pc = "c7"
          /\ Call("create_file", <<"shared.txt", "Main branch changes">>,
                  ResolverCreateFile(repo, "shared.txt", "Main branch changes"), "c8")
       \/ /\ pc = "c8"
          /\ Call("commit_changes", <<"Main branch modifications">>,
                  ResolverCommitChanges(repo, env, "Main branch modifications"), "c9")
       \/ /\ pc = "c9"
          /\ LET d == ResolverMergeBranch(repo, env, "feature") IN
             Call("merge_branch", <<"feature">>, d,
                  IF d.ret = "False" THEN "c10" ELSE "done")
       \/ /\ pc = "c10"
          /\ Call("resolve_conflict", <<"shared.txt", Resolution>>,
                  ResolverResolveConflict(repo, env, "shared.txt", Resolution), "done")

Init ==
    /\ cls \in {"manager", "resolver"}
    /\ env \in [defaultBranch : {"main", "master"}, identity : BOOLEAN]
    /\ repo = NoRepo
    /\ pc = "new"
    /\ last = NoCall
    /\ spc = "off"
    /\ dirExists = FALSE
    /\ calls = <<>>
    /\ result = "running"
    /\ exitCode = -1
    /\ printed = <<>>

NextManager ==
    \/ ManagerConstruct
    \/ ManagerApi
    \/ DemonstrateBranching

NextResolver ==
    \/ ResolverConstruct
    \/ ResolverApi
    \/ DemonstrateConflictResolution

Next ==
    \/ ManagerConstruct
    \/ ResolverConstruct
    \/ ManagerApi
    \/ ResolverApi
    \/ DemonstrateBranching
    \/ DemonstrateConflictResolution

\* Both classes of src/remote_demo.
Spec == Init /\ [][Next]_vars

InitManager == Init /\ cls = "manager"

InitResolver == Init /\ cls = "resolver"

\* src/remote_demo/branch_operations.py alone.
SpecManager == InitManager /\ [][NextManager]_vars

\* src/remote_demo/conflict_resolution.py alone.
SpecResolver == InitResolver /\ [][NextResolver]_vars

InitSafe ==
    /\ spc = "start"
    /\ dirExists \in BOOLEAN
    /\ calls = <<>>
    /\ result = "running"
    /\ exitCode = -1
    /\ printed = <<>>
    /\ cls = "none"
    /\ env = [defaultBranch |-> "main", identity |-> TRUE]
    /\ repo = NoRepo
    /\ pc = "off"
    /\ last = NoCall

NextSafe ==
    \/ SafeMkdir /\ UNCHANGED repoVars
    \/ (\E i \in 1..Len(CommandOrder) : SafeGit(CommandOrder[i])) /\ UNCHANGED repoVars
    \/ SafeWrite /\ UNCHANGED repoVars
    \/ SafeElse /\ UNCHANGED repoVars
    \/ MainExit /\ UNCHANGED repoVars

SpecSafe == InitSafe /\ [][NextSafe]_vars

(***************************************************************************)
(*                         Properties: src/git.py                          *)
(***************************************************************************)

\* The position of a command in CommandOrder.
Pos(cmd) == CHOOSE i \in DOMAIN CommandOrder : CommandOrder[i] = cmd

Failed(i) == calls[i].outcome # "exit0"

\* C1: run_git_command hands a result back only for a command that exited
\* with status zero; a command that exited non-zero, or a missing git
\* executable, raises GitOperationError.
C1_ReturnsOnlySuccess ==
    \A i \in DOMAIN calls :
        /\ calls[i].result = "return" => calls[i].outcome = "exit0"
        /\ calls[i].outcome \in {"nonzero", "notfound"}
              => calls[i].result = "GitOperationError"

\* A run in which one command returned and the next exited non-zero.
C1_Witness ==
    \E i \in DOMAIN calls, j \in DOMAIN calls :
        /\ calls[i].outcome = "exit0" /\ calls[i].result = "return"
        /\ calls[j].outcome = "nonzero" /\ calls[j].result = "GitOperationError"

\* init, status, add, commit and log were all run and all exited zero.
AllRequiredSucceeded ==
    \A c \in RequiredCommands :
        \E i \in DOMAIN calls : calls[i].cmd = c /\ calls[i].outcome = "exit0"

\* C2: safe_git_operations never lets an exception out; it returns True
\* exactly when init, status, add, commit and log all succeeded and False in
\* every other run, and the script then exits with status 0 or 1 accordingly.
C2_TrueIffAllSucceeded ==
    /\ result # "propagated"
    /\ spc # "crashed"
    /\ result = "True" => AllRequiredSucceeded
    /\ spc \in {"returned", "exited"} =>
          /\ result \in {"True", "False"}
          /\ (result = "True") = AllRequiredSucceeded
    /\ spc = "exited" => exitCode = (IF result = "True" THEN 0 ELSE 1)
    /\ spc # "exited" => exitCode = -1

\* A run that returned True, and exited 0, although a config command failed.
C2_Witness ==
    /\ spc = "exited"
    /\ result = "True"
    /\ exitCode = 0
    /\ AllRequiredSucceeded
    /\ \E i \in DOMAIN calls : calls[i].cmd \in ConfigCommands /\ Failed(i)

\* C9: the git commands are issued in the order init, status, add, config
\* user.email, config user.name, commit, log; after a failed init, status,
\* add, commit or log no further command is issued; a failed config command
\* is tolerated, and commit is attempted after it.
C9_OrderAndFailFast ==
    /\ calls # <<>> => calls[1].cmd = "init"
    /\ \A i \in DOMAIN calls :
          /\ calls[i].cmd \in RequiredCommands /\ Failed(i) =>
                /\ i = Len(calls)
                /\ spc \in {"returned", "exited"}
                /\ result = "False"
          /\ calls[i].cmd \in ConfigCommands /\ Failed(i) =>
                IF i = Len(calls) THEN spc = "commit"
                ELSE calls[i + 1].cmd = "commit"
          /\ i < Len(calls) /\ ~Failed(i) =>
                Pos(calls[i + 1].cmd) = Pos(calls[i].cmd) + 1

\* A run in which config user.email failed and commit was run after it.
C9_Witness ==
    \E i \in DOMAIN calls :
        /\ calls[i].cmd = "config user.email"
        /\ Failed(i)
        /\ i < Len(calls)
        /\ calls[i + 1].cmd = "commit"

(***************************************************************************)
(*                      Properties: src/remote_demo                        *)
(***************************************************************************)

\* The step is a call of method op.
Called(op) == last'.op = op /\ <<repo, last, pc>> # <<repo', last', pc'>>

\* Branches ours and theirs have both changed path p since their merge base,
\* to different content.
BothChanged(r, ours, theirs, p) ==
    LET o == TreeOf(r, r.refs[ours])
        t == TreeOf(r, r.refs[theirs])
        b == TreeOf(r, MergeBase(r, r.refs[ours], r.refs[theirs]))
    IN /\ r.refs[ours] # 0
       /\ r.refs[theirs] # 0
       /\ o[p] # b[p] /\ t[p] # b[p] /\ o[p] # t[p]

\* C3: in demonstrate_conflict_resolution, when main (checked out) and
\* feature have each changed shared.txt to different content since their
\* common ancestor, merge_branch("feature") returns False, makes no commit
\* and moves no branch; the next thing done is resolve_conflict, so main's
\* tip is its pre-merge commit until resolve_conflict is invoked.
C3_ConflictedMergeKeepsTip ==
    [][(/\ pc = "c9"
        /\ repo.head = "main"
        /\ BothChanged(repo, "main", "feature", "shared.txt"))
       => /\ last'.op = "merge_branch"
          /\ last'.ret = "False"
          /\ repo'.commits = repo.commits
          /\ repo'.refs = repo.refs
          /\ repo'.head = repo.head
          /\ pc' = "c10"]_vars

\* The demo after its merge stopped on the conflict in shared.txt.
C3_Witness ==
    /\ pc = "c10"
    /\ last.op = "merge_branch"
    /\ last.ret = "False"
    /\ repo.head = "main"
    /\ repo.mergeHead = repo.refs["feature"]
    /\ repo.unmerged = {"shared.txt"}
    /\ repo.commits[repo.refs["main"]].msg = "Main branch modifications"

\* Since their merge base, main has added parallel.txt and nothing else,
\* feature has added feature.txt and nothing else, and main.txt was there.
DivergedApart(r) ==
    LET o == TreeOf(r, r.refs["main"])
        t == TreeOf(r, r.refs["feature"])
        mb == MergeBase(r, r.refs["main"], r.refs["feature"])
        b == TreeOf(r, mb)
    IN /\ r.refs["main"] # 0
       /\ r.refs["feature"] # 0
       /\ mb \notin {r.refs["main"], r.refs["feature"]}
       /\ b["main.txt"] # NoFile
       /\ {p \in Paths : o[p] # b[p]} = {"parallel.txt"}
       /\ {p \in Paths : t[p] # b[p]} = {"feature.txt"}

\* C4: in demonstrate_branching, when main (checked out) and feature have
\* diverged without touching the same path (main added parallel.txt, feature
\* added feature.txt), merge_branch("feature") returns True and main's tip
\* becomes a new commit whose parents are the old main tip and the feature
\* tip, in this order, and whose tree holds main.txt, feature.txt and
\* parallel.txt; feature's tip stays.
C4_CleanMergeCommit ==
    [][(/\ pc = "b9"
        /\ repo.head = "main"
        /\ DivergedApart(repo))
       => LET new == repo'.refs["main"] IN
          /\ last'.op = "merge_branch"
          /\ last'.ret = "True"
          /\ Len(repo'.commits) = Len(repo.commits) + 1
          /\ new = Len(repo'.commits)
          /\ repo'.commits[new].parents = <<repo.refs["main"], repo.refs["feature"]>>
          /\ \A p \in {"main.txt", "feature.txt", "parallel.txt"} :
                repo'.commits[new].tree[p] # NoFile
          /\ repo'.commits[new].tree["feature.txt"]
                = TreeOf(repo, repo.refs["feature"])["feature.txt"]
          /\ repo'.refs["feature"] = repo.refs["feature"]
          /\ repo'.head = "main"]_vars

\* The demo after its merge of the two diverged branches.
C4_Witness ==
    /\ pc = "b10"
    /\ last.op = "merge_branch"
    /\ last.ret = "True"
    /\ repo.head = "main"
    /\ Len(repo.commits[repo.refs["main"]].parents) = 2
    /\ repo.commits[repo.commits[repo.refs["main"]].parents[1]].msg
          = "Parallel work on main"
    /\ repo.commits[repo.refs["main"]].parents[2] = repo.refs["feature"]

\* C5: with a merge stopped on a conflict, resolve_conflict(filename,
\* resolution) finishes it: the branch tip becomes a new commit whose parents
\* are the pre-merge tip and the merged branch's tip, whose content of
\* filename is the resolution, and no path stays unmerged.
C5_ResolveFinishesMerge ==
    [][(/\ Called("resolve_conflict")
        /\ repo.mergeHead # 0)
       => LET new == repo'.refs[repo.head] IN
          /\ Len(repo'.commits) = Len(repo.commits) + 1
          /\ new = Len(repo'.commits)
          /\ repo'.commits[new].parents = <<HeadTip(repo), repo.mergeHead>>
          /\ repo'.commits[new].tree[last'.arg[1]] = last'.arg[2]
          /\ repo'.unmerged = {}
          /\ repo'.mergeHead = 0
          /\ repo'.head = repo.head]_vars

\* The demo after resolve_conflict finished the merge of feature into main.
C5_Witness ==
    /\ pc = "done"
    /\ last.op = "resolve_conflict"
    /\ repo.head = "main"
    /\ Len(repo.commits[repo.refs["main"]].parents) = 2
    /\ repo.commits[repo.refs["main"]].parents[2] = repo.refs["feature"]
    /\ repo.commits[repo.refs["main"]].tree["shared.txt"] = Resolution
    /\ repo.unmerged = {}

\* The working tree is the tree of the tip of the checked-out branch, which
\* has a commit.
NothingChanged(r) == HeadTip(r) # 0 /\ r.work = TreeOf(r, HeadTip(r))

\* A call that made no commit and moved neither a branch nor HEAD.
CommitFailed ==
    /\ last'.ret = "False"
    /\ repo'.commits = repo.commits
    /\ repo'.refs = repo.refs
    /\ repo'.head = repo.head

\* C6 as claimed: commit_changes on an existing branch whose working tree is
\* the tree of the branch tip returns False, makes no commit and leaves the
\* branch tip and HEAD alone.
C6_Original ==
    [][(Called("commit_changes") /\ NothingChanged(repo)) => CommitFailed]_vars

\* C6, amended: the same, when no merge is in progress.
C6_NoChangesNoCommit ==
    [][(/\ Called("commit_changes")
        /\ NothingChanged(repo)
        /\ repo.mergeHead = 0) => CommitFailed]_vars

\* A commit_changes that failed for want of changes: the caller has an
\* identity, the branch has a commit, the working tree is its tree.
C6_Witness ==
    /\ last.op = "commit_changes"
    /\ last.ret = "False"
    /\ env.identity
    /\ NothingChanged(repo)
    /\ repo.mergeHead = 0

\* C7 as claimed: GitConflictResolver.merge_branch returns True exactly when
\* git merge succeeded and False (saying "Merge conflict detected") exactly
\* when the merge stopped on a conflict.
C7_FalseOnlyOnConflict ==
    [][(cls = "resolver" /\ Called("merge_branch"))
       => LET g == GitMerge(repo, env, last'.arg[1]) IN
          /\ (last'.ret = "True") = (g.rc = 0)
          /\ (last'.ret = "False") = (g.repo.unmerged # {} /\ repo.unmerged = {})]_vars

\* C8 as claimed: whenever demonstrate_branching is about to call
\* merge_branch("feature"), main is checked out, its tip is the commit
\* "Parallel work on main", and that commit is no ancestor of feature's tip.
C8_MergeRunsOnMain ==
    pc = "b9" =>
        /\ repo.head = "main"
        /\ HeadTip(repo) # 0
        /\ repo.commits[HeadTip(repo)].msg = "Parallel work on main"
        /\ HeadTip(repo) \notin Ancestors(repo, repo.refs["feature"])

====
